---- MODULE Spec2Model ----
(***************************************************************************)
(* A model of src/src/algorithms/cache.rs (roget's `Cached` guesser): the  *)
(* thread-local pairwise feedback cache COMPUTES, the shared weighted      *)
(* candidate list INITIAL, and the Guesser operations new and guess.       *)
(*                                                                         *)
(* f64 values are rendered in fixed point with ONE units per 1.0; log2 and *)
(* ln are computed bit by bit on that representation.  Words are sequences *)
(* of one-letter strings.  A packed pattern is a u8.                       *)
(***************************************************************************)
EXTENDS Integers, Sequences, FiniteSets, TLC

----------------------------------------------------------------------------
(* Bounds of the model *)

\* number of dictionary words (DICTIONARY.len(), NUM_WORDS)
NumWords == 4
\* longest history the harness builds in one game
MaxHist == 2
\* number of games (constructions of a Guesser after the first)
MaxGames == 1
\* most candidates the scoring loop meets in the budget specification
MaxBudget == 100
\* direct lookups in the cache by the harness of SpecCell
MaxLookups == 3

----------------------------------------------------------------------------
(* External collaborators: the dictionary and the feedback primitive *)

WordLen == 5

\* Iterator::collect into a Vec or an array: the values of s, in order
collect(s) == SubSeq(s, 1, Len(s))

\* the word list the dictionary is cut from; the words past NumWords are
\* words the harness may use that the dictionary does not hold
WordList ==
  << <<"t","a","r","e","s">>, <<"c","a","r","e","s">>,
     <<"d","a","r","e","s">>, <<"r","a","t","e","s">>,
     <<"t","e","a","s","e">> >>

\* a count of 0 puts a word under the sigmoid's cut-off
CountList == <<5, 3, 0, 4, 1>>

\* DICTIONARY: the ordered (word, count) pairs; position - 1 is the index
DICTIONARY ==
  collect([i \in 1..NumWords |-> [word |-> WordList[i], count |-> CountList[i]]])

NUM_WORDS == Len(DICTIONARY)

AllWords == {WordList[i] : i \in 1..Len(WordList)}

DictWords == {DICTIONARY[i].word : i \in 1..NUM_WORDS}

\* Correctness: Correct, Misplaced, Wrong
Correctness == {"C", "M", "W"}

MAX_MASK_ENUM == 243

\* the positions where guess has letter c and is not an exact match, before
\* position i
Earlier(answer, guess, c, i) ==
  {j \in 1..(i - 1) : guess[j] = c /\ answer[j] # guess[j]}

\* the positions of answer that hold letter c and are not exactly matched
Unmatched(answer, guess, c) ==
  {j \in 1..WordLen : answer[j] = c /\ answer[j] # guess[j]}

\* Correctness::compute(answer, guess): exact matches are Correct; the other
\* letters of guess, left to right, each take one unmatched position of
\* answer that holds the letter and are Misplaced while any is left, and
\* Wrong after that
Compute(answer, guess) ==
  collect([i \in 1..WordLen |->
    IF answer[i] = guess[i] THEN "C"
    ELSE IF Cardinality(Earlier(answer, guess, guess[i], i))
              < Cardinality(Unmatched(answer, guess, guess[i]))
    THEN "M"
    ELSE "W"])

Digit(c) == IF c = "C" THEN 0 ELSE IF c = "M" THEN 1 ELSE 2

\* Correctness::pack: the pattern read as a base-3 number, in a u8
Pack(mask) ==
  (Digit(mask[1]) * 81 + Digit(mask[2]) * 27 + Digit(mask[3]) * 9
     + Digit(mask[4]) * 3 + Digit(mask[5])) % 256

AllCorrect == collect([i \in 1..WordLen |-> "C"])

----------------------------------------------------------------------------
(* f64 arithmetic in fixed point *)

\* the fixed-point unit: the integer that stands for the f64 1.0
ONE == 2 ^ 10

\* const L: f64 = 1.0
L == ONE

RECURSIVE ILog2(_)
\* floor(log2(n)) for n >= 1
ILog2(n) == IF n < 2 THEN 0 ELSE 1 + ILog2(n \div 2)

FracBits == ILog2(ONE)

RECURSIVE Pow2(_)
Pow2(k) == IF k = 0 THEN 1 ELSE 2 * Pow2(k - 1)

RECURSIVE FracLog2(_, _, _)
\* fractional bits of log2(y / ONE) for y in [ONE, 2 * ONE), by squaring
FracLog2(y, bit, acc) ==
  IF bit = 0 THEN acc
  ELSE LET sq == (y * y) \div ONE
       IN IF sq >= 2 * ONE
          THEN FracLog2(sq \div 2, bit \div 2, acc + bit)
          ELSE FracLog2(sq, bit \div 2, acc)

\* f64::log2 of x / ONE, in units of 1 / ONE, for x > 0
Log2(x) ==
  LET k == ILog2(x) - FracBits
      y == IF k >= 0 THEN x \div Pow2(k) ELSE x * Pow2(-k)
  IN k * ONE + FracLog2(y, ONE \div 2, 0)

\* f64::ln: log2 times ln 2 = 0.693147 (710 / 1024)
Ln(x) == (Log2(x) * 710) \div ONE

\* a * b and a / b on fixed-point values
Mul(a, b) == (a * b) \div ONE
Div(a, b) == (a * ONE) \div b

RECURSIVE SumSeq(_, _, _)
\* the sum of s[lo..hi] (the range is folded by halves)
SumSeq(s, lo, hi) ==
  IF lo > hi THEN 0
  ELSE IF lo = hi THEN s[lo]
  ELSE LET mid == (lo + hi) \div 2
       IN SumSeq(s, lo, mid) + SumSeq(s, mid + 1, hi)

----------------------------------------------------------------------------
(* Weighting and estimation functions *)

\* a raw probability count / sum, in units of 1e-8 (X0 = 497 of them)
RawP(count, sum) == (count * 100000000) \div sum

\* sigmoid(p) = L / (1 + exp(-K * (p - X0))), K = 30000000, X0 = 0.00000497.
\* x10 is K * (p - X0) in tenths.  For x >= 37, exp(-x) < 2^-53 and the f64
\* result is exactly L; for x <= -37 the result is positive and below every
\* fixed-point unit, so the smallest unit stands for it; the band between is
\* rendered linearly.
sigmoid(p) ==
  LET x10 == 3 * (p - 497)
  IN IF x10 >= 370 THEN L
     ELSE IF x10 <= -370 THEN 1
     ELSE 1 + ((L - 1) * (x10 + 370)) \div 740

\* est_steps_left(entropy) = (entropy * 3.870 + 3.679).ln()
est_steps_left(entropy) == Ln(((entropy * 3870) \div 1000) + 3767)

----------------------------------------------------------------------------
(* The cache: CacheValue, Cache, get_correctness_packed *)

\* Option<CacheValue> in one byte: 0 is None, v in 1..255 is Some(NonZeroU8(v))
NoneCell == 0

\* mutant: the value stored as it is, without the shift past zero
CacheValue_new_unshifted(val) == val % 256

\* CacheValue::new(val): NonZeroU8::new(val.wrapping_add(1)).unwrap()
CacheValue_new(val) == (val + 1) % 256

\* mutant: the raw byte returned, without the shift back
CacheValue_get_raw(raw) == raw

\* CacheValue::get: self.0.get() - 1
CacheValue_get(raw) == raw - 1

\* const ROW: NUM_WORDS empty cells (n is NUM_WORDS, the dictionary's length).
\* Arrays are sequences: cell a of the code is position a + 1.
ROW(n) == collect([a \in 1..n |-> NoneCell])

\* Cache::default(): NUM_WORDS rows of NUM_WORDS empty cells
Cache_default(n) == collect([g \in 1..n |-> ROW(n)])

\* mutant: the arguments of Correctness::compute swapped
get_correctness_packed_swapped(row, guess, answer, answer_idx) ==
  LET cell == row[answer_idx + 1]
  IN IF cell # NoneCell
     THEN [val |-> CacheValue_get(cell), row |-> row]
     ELSE LET correctness == Pack(Compute(guess, answer))
          IN [val |-> correctness,
              row |-> [row EXCEPT ![answer_idx + 1] = CacheValue_new(correctness)]]

\* mutant: a miss stores the pattern in every empty cell of the row
get_correctness_packed_smear(row, guess, answer, answer_idx) ==
  LET cell == row[answer_idx + 1]
  IN IF cell # NoneCell
     THEN [val |-> CacheValue_get(cell), row |-> row]
     ELSE LET correctness == Pack(Compute(answer, guess))
          IN [val |-> correctness,
              row |-> collect([k \in 1..Len(row) |->
                                 IF row[k] = NoneCell THEN CacheValue_new(correctness)
                                 ELSE row[k]])]

\* get_correctness_packed(row, guess, answer, answer_idx): the packed value
\* returned and the row as the call leaves it
get_correctness_packed(row, guess, answer, answer_idx) ==
  LET cell == row[answer_idx + 1]
  IN IF cell # NoneCell
     THEN [val |-> CacheValue_get(cell), row |-> row]
     ELSE LET correctness == Pack(Compute(answer, guess))
          IN [val |-> correctness,
              row |-> [row EXCEPT ![answer_idx + 1] = CacheValue_new(correctness)]]

----------------------------------------------------------------------------
(* Cached::new *)

\* the closure of INITIAL.get_or_init: (word, sigmoid(count / sum), idx)
InitialWords(dictionary) ==
  LET sum == SumSeq([i \in 1..Len(dictionary) |-> dictionary[i].count], 1, Len(dictionary))
  IN collect([i \in 1..Len(dictionary) |->
                [word |-> dictionary[i].word,
                 weight |-> sigmoid(RawP(dictionary[i].count, sum)),
                 index |-> i - 1]])

\* Cow::Borrowed(INITIAL) and Cow::Owned(vec)
Borrowed == [owned |-> FALSE, vec |-> <<>>]
Owned(vec) == [owned |-> TRUE, vec |-> vec]

\* Deref of the Cow: the borrowed snapshot or the owned vector
Deref(cow, initial) == IF cow.owned THEN cow.vec ELSE initial

\* Option, for the OnceCells and for Option values of the code
None == [some |-> FALSE]
Some(v) == [some |-> TRUE, val |-> v]

\* OnceCell::get_or_init: the cell keeps its value once it has one
get_or_init(cell, v) == IF cell.some THEN cell ELSE Some(v)

\* Cached::new(): initialises INITIAL and this thread's COMPUTES if they are
\* not yet, and returns Self { remaining: Cow::Borrowed(INITIAL), entropy: Vec::new() }
Cached_new(initial, computes, dictionary) ==
  [INITIAL |-> get_or_init(initial, InitialWords(dictionary)),
   COMPUTES |-> get_or_init(computes, Cache_default(Len(dictionary))),
   self |-> [remaining |-> Borrowed, entropy |-> <<>>]]

----------------------------------------------------------------------------
(* Guesser::guess *)

\* the hard-coded opening word, "tares"
Tares == <<"t","a","r","e","s">>

\* the outcome of a call
Returned(word) == [kind |-> "word", word |-> word]
\* a panic, named by the unwrap that raised it
Panic(at) == [kind |-> "panic", at |-> at]
NoCall == [kind |-> "none"]

\* the positions of vec that hold word
Hits(vec, word) == {i \in 1..Len(vec) : vec[i].word = word}

\* mutant: a word that is not found falls back to the first candidate
Find_orFirst(vec, word) ==
  IF Hits(vec, word) = {} THEN (IF Len(vec) > 0 THEN Some(vec[1]) ELSE None)
  ELSE Some(vec[CHOOSE i \in Hits(vec, word) : \A j \in Hits(vec, word) : i <= j])

\* self.remaining.iter().find(|(word, _, _)| &*last.word == *word): the
\* first candidate that holds word
Find(vec, word) ==
  IF Hits(vec, word) = {} THEN None
  ELSE Some(vec[CHOOSE i \in Hits(vec, word) : \A j \in Hits(vec, word) : i <= j])

RECURSIVE Patterns(_, _, _, _, _)
\* one pass over the candidates lo..hi of vec, in order (the range is folded
\* by halves), asking get_correctness_packed for the pattern of guess against
\* each.  The candidates carry distinct indices (they are a subsequence of the
\* enumerated snapshot), so no call of the pass reads a cell that an earlier
\* call of the pass wrote: each is applied to the row as the pass found it.
Patterns(vec, lo, hi, row, guess) ==
  IF lo > hi THEN <<>>
  ELSE IF lo = hi
  THEN <<get_correctness_packed(row, guess, vec[lo].word, vec[lo].index)>>
  ELSE LET mid == (lo + hi) \div 2
       IN Patterns(vec, lo, mid, row, guess) \o Patterns(vec, mid + 1, hi, row, guess)

\* the row as the pass leaves it: the cell of every candidate as its call
\* left it, every other cell as it was
RowAfter(vec, row, cells) ==
  collect([k \in 1..Len(row) |->
     LET at == {j \in 1..Len(vec) : vec[j].index + 1 = k}
     IN IF at = {} THEN row[k] ELSE cells[CHOOSE j \in at : TRUE].row[k]])

RECURSIVE Kept(_, _, _, _, _)
\* the candidates lo..hi of vec whose pattern equals reference, in order
Kept(vec, cells, reference, lo, hi) ==
  IF lo > hi THEN <<>>
  ELSE IF lo = hi
  THEN (IF reference = cells[lo].val THEN <<vec[lo]>> ELSE <<>>)
  ELSE LET mid == (lo + hi) \div 2
       IN Kept(vec, cells, reference, lo, mid) \o Kept(vec, cells, reference, mid + 1, hi)

\* mutant: the survivors come out in reverse order
FilterFrom_reversed(vec, row, last_word, reference) ==
  LET cells == Patterns(vec, 1, Len(vec), row, last_word)
      kept == Kept(vec, cells, reference, 1, Len(vec))
  IN [vec |-> collect([i \in 1..Len(kept) |-> kept[Len(kept) + 1 - i]]),
      row |-> RowAfter(vec, row, cells)]

\* mutant: the filter keeps the candidates whose pattern differs
FilterFrom_complement(vec, row, last_word, reference) ==
  LET cells == Patterns(vec, 1, Len(vec), row, last_word)
      kept == Kept(vec, cells, reference, 1, Len(vec))
  IN [vec |-> SelectSeq(vec, LAMBDA c : \A k \in 1..Len(kept) : kept[k] # c),
      row |-> RowAfter(vec, row, cells)]

\* the filter closure applied along vec: the candidates whose packed pattern
\* against last_word equals reference, and the cache row after the tests
FilterFrom(vec, row, last_word, reference) ==
  LET cells == Patterns(vec, 1, Len(vec), row, last_word)
  IN [vec |-> Kept(vec, cells, reference, 1, Len(vec)),
      row |-> RowAfter(vec, row, cells)]

\* mutant: retain that drops nothing
retain_all(vec, row, last_word, reference) == [vec |-> vec, row |-> row]

\* self.remaining.to_mut().retain(..): the owned vector filtered in place
retain(vec, row, last_word, reference) ==
  FilterFrom(vec, row, last_word, reference)

\* mutant: the snapshot cloned without the filter
filter_collect_all(initial, row, last_word, reference) ==
  [vec |-> initial, row |-> row]

\* self.remaining.iter().filter(..).copied().collect(): a filtered copy of
\* the borrowed snapshot
filter_collect(initial, row, last_word, reference) ==
  FilterFrom(initial, row, last_word, reference)

\* mutant: every call filters the initial snapshot again
FilterStep_fromInitial(cow, initial, row, last_word, reference) ==
  LET r == filter_collect(initial, row, last_word, reference)
  IN [cow |-> Owned(r.vec), row |-> r.row, initial |-> initial]

\* mutant: a borrowed list is filtered in place, through the reference to the
\* shared snapshot, and stays borrowed
FilterStep_inPlace(cow, initial, row, last_word, reference) ==
  IF cow.owned
  THEN LET r == retain(cow.vec, row, last_word, reference)
       IN [cow |-> Owned(r.vec), row |-> r.row, initial |-> initial]
  ELSE LET r == retain(initial, row, last_word, reference)
       IN [cow |-> Borrowed, row |-> r.row, initial |-> r.vec]

\* the filtering step of guess: the Cow and the cache row it leaves, and the
\* shared snapshot, which neither path writes (if matches!(self.remaining,
\* Cow::Owned(_)) retain on the owned vector, else a filtered copy of the
\* borrowed one becomes Cow::Owned)
FilterStep(cow, initial, row, last_word, reference) ==
  IF cow.owned
  THEN LET r == retain(cow.vec, row, last_word, reference)
       IN [cow |-> Owned(r.vec), row |-> r.row, initial |-> initial]
  ELSE LET r == filter_collect(initial, row, last_word, reference)
       IN [cow |-> Owned(r.vec), row |-> r.row, initial |-> initial]

RECURSIVE EntropySum(_, _, _, _)
\* sum over remaining[lo..hi] of p * p.log2(), p = weight / remaining_p
EntropySum(vec, remaining_p, lo, hi) ==
  IF lo > hi THEN 0
  ELSE IF lo = hi
  THEN LET p == Div(vec[lo].weight, remaining_p)
       IN Mul(p, Log2(p))
  ELSE LET mid == (lo + hi) \div 2
       IN EntropySum(vec, remaining_p, lo, mid) + EntropySum(vec, remaining_p, mid + 1, hi)

RECURSIVE BucketSum(_, _, _, _, _)
\* what the inner loop adds to totals[m]: the weights of the candidates
\* lo..hi whose pattern is m
BucketSum(vec, cells, m, lo, hi) ==
  IF lo > hi THEN 0
  ELSE IF lo = hi
  THEN (IF cells[lo].val = m THEN vec[lo].weight ELSE 0)
  ELSE LET mid == (lo + hi) \div 2
       IN BucketSum(vec, cells, m, lo, mid) + BucketSum(vec, cells, m, mid + 1, hi)

\* totals[m], for totals held on the patterns that occurred: every other
\* bucket keeps the 0.0 of [0.0f64; MAX_MASK_ENUM]
Bucket(totals, m) == IF m \in DOMAIN totals THEN totals[m] ELSE 0

\* mutant: the inner loop skips the candidate word itself
Totals_others(vec, row, word) ==
  LET others == SelectSeq(vec, LAMBDA c : c.word # word)
      cells == Patterns(others, 1, Len(others), row, word)
      seen == {cells[j].val : j \in 1..Len(others)}
  IN [totals |-> [m \in seen |-> BucketSum(others, cells, m, 1, Len(others))],
      row |-> RowAfter(others, row, cells)]

\* the inner loop over remaining for the candidate word: every candidate of
\* remaining (word itself among them) adds its weight to the bucket of its
\* pattern against word; the row of word fills as the loop goes
Totals(vec, row, word) ==
  LET cells == Patterns(vec, 1, Len(vec), row, word)
      seen == {cells[j].val : j \in 1..Len(vec)}
  IN [totals |-> [m \in seen |-> BucketSum(vec, cells, m, 1, Len(vec))],
      row |-> RowAfter(vec, row, cells)]

RECURSIVE PatternSum(_, _, _, _)
\* totals.into_iter().filter(|t| *t != 0.0).map(p * p.log2()).sum(), over
\* the buckets lo..hi in index order (the range is folded by halves; a
\* range in which no pattern occurred holds only 0.0 and adds nothing)
PatternSum(totals, remaining_p, lo, hi) ==
  IF \A m \in DOMAIN totals : m < lo \/ m > hi THEN 0
  ELSE IF lo = hi
  THEN LET t == Bucket(totals, lo)
           p == Div(t, remaining_p)
       IN IF t # 0 THEN Mul(p, Log2(p)) ELSE 0
  ELSE LET mid == (lo + hi) \div 2
       IN PatternSum(totals, remaining_p, lo, mid)
          + PatternSum(totals, remaining_p, mid + 1, hi)

Max(a, b) == IF a >= b THEN a ELSE b

Min(a, b) == IF a <= b THEN a ELSE b

\* mutant: min in place of max
Stop_min(n) == Min(n \div 3, 20)

\* let stop = (self.remaining.len() / 3).max(20)
Stop(n) == Max(n \div 3, 20)

\* e_score of one candidate, from its weight and the bucket totals
EScore(count, totals, remaining_p, remaining_entropy, score) ==
  LET sum == PatternSum(totals, remaining_p, 0, MAX_MASK_ENUM - 1)
      p_word == Div(count, remaining_p)
      e_info == -sum
  IN Mul(p_word, score + ONE)
     + Mul(ONE - p_word, score + est_steps_left(remaining_entropy - e_info))

\* mutant: a candidate that ties with best replaces it
Better_orEqual(best, cand) ==
  IF best.some
  THEN IF cand.e_score <= best.val.e_score THEN Some(cand) ELSE best
  ELSE Some(cand)

\* if let Some(c) = best { if e_score < c.e_score { replace } } else { set }
Better(best, cand) ==
  IF best.some
  THEN IF cand.e_score < best.val.e_score THEN Some(cand) ELSE best
  ELSE Some(cand)

RECURSIVE ScoreLoop(_, _, _, _, _, _, _)
\* the scoring loop over remaining from candidate k on: st carries best, the
\* cache, the words evaluated so far (with the e_score and the bucket totals
\* of each) and the iteration count i; the loop breaks when i reaches stop
ScoreLoop(vec, k, stop, remaining_p, remaining_entropy, score, st) ==
  IF k > Len(vec) THEN st
  ELSE LET c == vec[k]
           t == Totals(vec, st.cache[c.index + 1], c.word)
           e_score == EScore(c.weight, t.totals, remaining_p, remaining_entropy, score)
           st2 == [best |-> Better(st.best, [word |-> c.word, e_score |-> e_score]),
                   cache |-> [st.cache EXCEPT ![c.index + 1] = t.row],
                   evaluated |-> Append(st.evaluated, c.word),
                   scored |-> Append(st.scored, [word |-> c.word, e_score |-> e_score,
                                                 totals |-> t.totals]),
                   i |-> st.i + 1]
       IN IF st2.i >= stop THEN st2
          ELSE ScoreLoop(vec, k + 1, stop, remaining_p, remaining_entropy, score, st2)

\* mutant: a silent default in place of the unwrap
unwrap_best_or_default(best) ==
  IF best.some THEN Returned(best.val.word) ELSE Returned(Tares)

\* best.unwrap().word.to_string()
unwrap_best(best) ==
  IF best.some THEN Returned(best.val.word) ELSE Panic("best")

\* guess from the scoring step on: remaining is already narrowed
Scoring(self, initial, cache, history) ==
  LET vec == Deref(self.remaining, initial)
      score == Len(history) * ONE
      remaining_p == SumSeq([i \in 1..Len(vec) |-> vec[i].weight], 1, Len(vec))
      remaining_entropy == -EntropySum(vec, remaining_p, 1, Len(vec))
      loop == ScoreLoop(vec, 1, Stop(Len(vec)), remaining_p, remaining_entropy, score,
                        [best |-> None, cache |-> cache, evaluated |-> <<>>,
                         scored |-> <<>>, i |-> 0])
  IN [self |-> [remaining |-> self.remaining,
                entropy |-> Append(self.entropy, remaining_entropy)],
      cache |-> loop.cache,
      evaluated |-> loop.evaluated,
      scored |-> loop.scored,
      result |-> unwrap_best(loop.best)]

\* mutant: the list is made owned (to_mut) before the last word is looked up
GuessLast_ownedFirst(self, initial, computes, history) ==
       LET last == history[Len(history)]
           reference == Pack(last.mask)
           found == Find(Deref(self.remaining, initial), last.word)
       IN IF ~found.some
          THEN [self |-> [remaining |-> Owned(Deref(self.remaining, initial)),
                          entropy |-> self.entropy],
                computes |-> computes, initial |-> initial,
                evaluated |-> <<>>, scored |-> <<>>, result |-> Panic("find")]
          ELSE IF ~computes.some
          THEN [self |-> self, computes |-> computes, initial |-> initial,
                evaluated |-> <<>>, scored |-> <<>>, result |-> Panic("computes")]
          ELSE LET last_idx == found.val.index
                   cache == computes.val
                   f == FilterStep(self.remaining, initial, cache[last_idx + 1],
                                   last.word, reference)
                   narrowed == [remaining |-> f.cow, entropy |-> self.entropy]
                   s == Scoring(narrowed, f.initial,
                                [cache EXCEPT ![last_idx + 1] = f.row], history)
               IN [self |-> s.self, computes |-> Some(s.cache), initial |-> f.initial,
                   evaluated |-> s.evaluated, scored |-> s.scored,
                   result |-> s.result]

\* guess with a non-empty history (if let Some(last) = history.last(), then
\* the scoring): the Guesser and the cache after the call, the outcome, and
\* the words the scoring loop evaluated
GuessLast(self, initial, computes, history) ==
       LET last == history[Len(history)]
           reference == Pack(last.mask)
           found == Find(Deref(self.remaining, initial), last.word)
       IN IF ~found.some
          THEN [self |-> self, computes |-> computes, initial |-> initial,
                evaluated |-> <<>>, scored |-> <<>>, result |-> Panic("find")]
          ELSE IF ~computes.some
          THEN [self |-> self, computes |-> computes, initial |-> initial,
                evaluated |-> <<>>, scored |-> <<>>, result |-> Panic("computes")]
          ELSE LET last_idx == found.val.index
                   cache == computes.val
                   f == FilterStep(self.remaining, initial, cache[last_idx + 1],
                                   last.word, reference)
                   narrowed == [remaining |-> f.cow, entropy |-> self.entropy]
                   s == Scoring(narrowed, f.initial,
                                [cache EXCEPT ![last_idx + 1] = f.row], history)
               IN [self |-> s.self, computes |-> Some(s.cache), initial |-> f.initial,
                   evaluated |-> s.evaluated, scored |-> s.scored,
                   result |-> s.result]

\* mutant: the early return of the opening word left out, so that the
\* first turn runs the scoring loop
guess_scored_opening(self, initial, computes, history) ==
  IF history = <<>>
  THEN LET s == Scoring(self, initial, computes.val, history)
       IN [self |-> s.self, computes |-> Some(s.cache), initial |-> initial,
           evaluated |-> s.evaluated, scored |-> s.scored, result |-> s.result]
  ELSE GuessLast(self, initial, computes, history)

\* Guesser::guess(&mut self, history)
guess(self, initial, computes, history) ==
  IF history = <<>>
  THEN [self |-> self, computes |-> computes, initial |-> initial,
        evaluated |-> <<>>, scored |-> <<>>, result |-> Returned(Tares)]
  ELSE GuessLast(self, initial, computes, history)

----------------------------------------------------------------------------
(* The state machine: one thread, its cache, the Guesser of the game being  *)
(* played and the harness that drives it                                   *)

VARIABLES
  INITIAL,     \* static INITIAL: OnceCell of the weighted candidate list
  COMPUTES,    \* thread-local COMPUTES: OnceCell of the N x N cache
  remaining,   \* self.remaining: the Cow
  entropy,     \* self.entropy
  answer,      \* harness: the hidden answer of the game
  history,     \* harness: the history it passes to guess
  games,       \* harness: Guessers constructed after the first
  result,      \* outcome of the last guess call on the Guesser
  called,      \* the history and the Cow the last call started from
  evaluated,   \* the words the last call's scoring loop evaluated, in order
  stepwise,    \* every call so far came one history entry after the previous
  growing,     \* every call so far came with a longer history than the previous
  scored,      \* the candidates the last call's scoring loop evaluated, each
               \* with its e_score and its bucket totals, in order
  protocol,    \* the harness has kept to one call per turn so far, each
               \* entry holding the word the call before it returned
  elsewhere,   \* thread-local COMPUTES of the second thread
  probe        \* the last direct use of the cache: a lookup or a CacheValue

vars == <<INITIAL, COMPUTES, remaining, entropy, answer, history, games,
          result, called, evaluated, stepwise, growing, scored, protocol,
          elsewhere, probe>>

\* no direct use of the cache yet
NoProbe == [kind |-> "none", count |-> 0]

self == [remaining |-> remaining, entropy |-> entropy]

\* no call yet on this Guesser
NotCalled == [some |-> FALSE]

Init ==
  \E a \in AllWords :
    LET n == Cached_new(None, None, DICTIONARY)
    IN /\ INITIAL = n.INITIAL
       /\ COMPUTES = n.COMPUTES
       /\ remaining = n.self.remaining
       /\ entropy = n.self.entropy
       /\ answer = a
       /\ history = <<>>
       /\ games = 0
       /\ result = NoCall
       /\ called = NotCalled
       /\ evaluated = <<>>
       /\ stepwise = TRUE
       /\ growing = TRUE
       /\ scored = <<>>
       /\ protocol = TRUE
       /\ elsewhere = None
       /\ probe = NoProbe

\* the harness records a guess and the feedback the answer gives it
Observe(w) ==
  /\ result.kind # "panic"
  /\ Len(history) < MaxHist
  /\ history' = Append(history, [word |-> w, mask |-> Compute(answer, w)])
  /\ protocol' = (protocol /\ called.some /\ history = called.val.history
                           /\ result = Returned(w))
  /\ UNCHANGED <<INITIAL, COMPUTES, remaining, entropy, answer, games, result,
                 called, evaluated, stepwise, growing, scored, elsewhere, probe>>

\* the harness calls guess(&history); a panic ends the run of this Guesser
Guess ==
  /\ result.kind # "panic"
  /\ Len(entropy) <= Len(history)
  /\ \E g \in {guess(self, INITIAL.val, COMPUTES, history)} :
       /\ remaining' = g.self.remaining
       /\ entropy' = g.self.entropy
       /\ COMPUTES' = g.computes
       /\ INITIAL' = Some(g.initial)
       /\ result' = g.result
       /\ evaluated' = g.evaluated
       /\ scored' = g.scored
  /\ called' = Some([history |-> history, remaining |-> remaining])
  /\ stepwise' = (stepwise /\ IF called.some
                               THEN Len(history) = Len(called.val.history) + 1
                               ELSE Len(history) <= 1)
  /\ growing' = (growing /\ (called.some => Len(history) > Len(called.val.history)))
  /\ protocol' = (protocol /\ IF called.some
                               THEN Len(history) = Len(called.val.history) + 1
                               ELSE history = <<>>)
  /\ UNCHANGED <<answer, history, games, elsewhere, probe>>

\* the harness drops the Guesser and starts a new game with a new one, on
\* the same thread
New ==
  /\ games < MaxGames
  /\ LET n == Cached_new(INITIAL, COMPUTES, DICTIONARY)
     IN /\ INITIAL' = n.INITIAL
        /\ COMPUTES' = n.COMPUTES
        /\ remaining' = n.self.remaining
        /\ entropy' = n.self.entropy
  /\ answer' = answer
  /\ history' = <<>>
  /\ games' = games + 1
  /\ result' = NoCall
  /\ called' = NotCalled
  /\ evaluated' = <<>>
  /\ stepwise' = TRUE
  /\ growing' = TRUE
  /\ scored' = <<>>
  /\ protocol' = TRUE
  /\ UNCHANGED <<elsewhere, probe>>

Next ==
  \/ \E w \in AllWords : Observe(w)
  \/ Guess
  \/ New

Spec == Init /\ [][Next]_vars

----------------------------------------------------------------------------
(* Two threads: COMPUTES is thread_local!, so each thread has its own cell. *)
(* COMPUTES is the cell of the thread the Guesser is on, elsewhere the cell *)
(* of the other thread.  Cached is Send: the harness may move it.           *)

\* the harness moves the Guesser to the other thread: from now on guess and
\* Cached::new see that thread's COMPUTES
Move ==
  /\ result.kind # "panic"
  /\ COMPUTES' = elsewhere
  /\ elsewhere' = COMPUTES
  /\ UNCHANGED <<INITIAL, remaining, entropy, answer, history, games, result,
                 called, evaluated, stepwise, growing, scored, protocol, probe>>

ThreadsNext ==
  \/ \E w \in AllWords : Observe(w)
  \/ Guess
  \/ New
  \/ Move

SpecThreads == Init /\ [][ThreadsNext]_vars

----------------------------------------------------------------------------
(* The search budget on large dictionaries: the same guess, on dictionaries *)
(* of 1 to MaxBudget + 1 words.  Word 0 is the word the harness guesses; no *)
(* other word shares a letter with it, so an all-wrong feedback keeps every *)
(* other word and the scoring loop meets n = NUM_WORDS - 1 candidates.      *)

BudgetGuessWord == <<"z","z","z","z","z">>

BudgetLetters == <<"a","b","c","d","e">>

\* the i-th word over BudgetLetters: the base-5 digits of i
BudgetWord(i) ==
  collect([k \in 1..WordLen |->
             BudgetLetters[((i \div (5 ^ (WordLen - k))) % 5) + 1]])

\* a DICTIONARY of n + 1 words
BudgetDictionary(n) ==
  collect([i \in 1..(n + 1) |->
             [word |-> IF i = 1 THEN BudgetGuessWord ELSE BudgetWord(i - 2), count |-> 1]])

BudgetInit ==
  \E n \in 0..MaxBudget :
    LET c == Cached_new(None, None, BudgetDictionary(n))
    IN /\ INITIAL = c.INITIAL
       /\ COMPUTES = c.COMPUTES
       /\ remaining = c.self.remaining
       /\ entropy = c.self.entropy
       /\ answer = BudgetWord(0)
       /\ history = <<>>
       /\ games = 0
       /\ result = NoCall
       /\ called = NotCalled
       /\ evaluated = <<>>
       /\ stepwise = TRUE
       /\ growing = TRUE
       /\ scored = <<>>
       /\ protocol = TRUE
       /\ elsewhere = None
       /\ probe = NoProbe

\* the harness records its one guess and the all-wrong feedback
BudgetObserve ==
  /\ history = <<>>
  /\ Observe(BudgetGuessWord)

BudgetNext ==
  \/ BudgetObserve
  \/ Guess

SpecBudget == BudgetInit /\ [][BudgetNext]_vars

----------------------------------------------------------------------------
(* Games on dictionaries of every size up to NumWords: the dictionary is a  *)
(* run of consecutive words of DICTIONARY with a positive total count (so  *)
(* some dictionaries lack the opening word), the answer any word; one       *)
(* Guesser, one game                                                        *)

ProtocolInit ==
  \E lo \in 1..NumWords :
    \E hi \in lo..NumWords :
      \E a \in AllWords :
        LET n == Cached_new(None, None, SubSeq(DICTIONARY, lo, hi))
        IN /\ \E k \in lo..hi : DICTIONARY[k].count > 0
           /\ INITIAL = n.INITIAL
           /\ COMPUTES = n.COMPUTES
           /\ remaining = n.self.remaining
           /\ entropy = n.self.entropy
           /\ answer = a
           /\ history = <<>>
           /\ games = 0
           /\ result = NoCall
           /\ called = NotCalled
           /\ evaluated = <<>>
           /\ stepwise = TRUE
           /\ growing = TRUE
           /\ scored = <<>>
           /\ protocol = TRUE
           /\ elsewhere = None
           /\ probe = NoProbe

ProtocolNext ==
  \/ \E w \in AllWords : Observe(w)
  \/ Guess

SpecProtocol == ProtocolInit /\ [][ProtocolNext]_vars

----------------------------------------------------------------------------
(* The cache on its own: the harness calls get_correctness_packed on a row  *)
(* of this thread's table for a pair of dictionary words, or builds a       *)
(* CacheValue from a byte and reads it back                                 *)

\* u8
Bytes == 0..255

\* get_correctness_packed(&cache[g], word g, word a, a)
Lookup(g, a) ==
  /\ probe.count < MaxLookups
  /\ LET r == get_correctness_packed(COMPUTES.val[g + 1], DICTIONARY[g + 1].word,
                                     DICTIONARY[a + 1].word, a)
     IN /\ COMPUTES' = Some([COMPUTES.val EXCEPT ![g + 1] = r.row])
        /\ probe' = [kind |-> "lookup", count |-> probe.count + 1, g |-> g, a |-> a,
                     before |-> COMPUTES.val, val |-> r.val]
  /\ UNCHANGED <<INITIAL, remaining, entropy, answer, history, games, result,
                 called, evaluated, stepwise, growing, scored, protocol, elsewhere>>

\* CacheValue::new(v), then get() on what it built; a cell of 0 is the None
\* of NonZeroU8::new, on which new's unwrap fails
Encode(v) ==
  /\ probe.kind # "lookup"
  /\ probe' = [kind |-> "value", count |-> 0, val |-> v,
               cell |-> CacheValue_new(v),
               back |-> CacheValue_get(CacheValue_new(v))]
  /\ UNCHANGED <<INITIAL, COMPUTES, remaining, entropy, answer, history, games,
                 result, called, evaluated, stepwise, growing, scored, protocol,
                 elsewhere>>

CellInit == Init /\ answer = Tares

CellNext ==
  \/ \E g, a \in 0..(NUM_WORDS - 1) : Lookup(g, a)
  \/ \E v \in Bytes : Encode(v)

SpecCell == CellInit /\ [][CellNext]_vars

----------------------------------------------------------------------------
(* Vocabulary of the properties *)

\* the remaining vector now, and at the start of the last call
Vec == Deref(remaining, INITIAL.val)
BeforeVec == Deref(called.val.remaining, INITIAL.val)

CandSet(vec) == {vec[i] : i \in 1..Len(vec)}
WordSet(vec) == {vec[i].word : i \in 1..Len(vec)}

CalledHistory == called.val.history
LastEntry == CalledHistory[Len(CalledHistory)]

\* the last call had a non-empty history
CalledLast == called.some /\ CalledHistory # <<>>

\* the last call had a non-empty history and ran its filtering step
Narrowed == CalledLast /\ result \notin {Panic("find"), Panic("computes")}

\* candidate c gives the pattern of entry e when e.word is guessed
Produces(c, e) == Pack(Compute(c.word, e.word)) = Pack(e.mask)

\* word w is consistent with every entry of hist
Consistent(w, hist) ==
  \A k \in 1..Len(hist) : Pack(Compute(w, hist[k].word)) = Pack(hist[k].mask)

WordAt(i) == DICTIONARY[i + 1].word
Indices == 0..(NUM_WORDS - 1)
\* pack(compute(answer = word a, guess = word g))
PackedOf(g, a) == Pack(Compute(WordAt(a), WordAt(g)))

----------------------------------------------------------------------------
(* C1: after the filtering step of a call whose history ends in             *)
(* (last_word, last_pattern), remaining holds exactly the candidates of the *)
(* remaining before the call whose packed pattern against last_word equals  *)
(* pack(last_pattern): no survivor violates it and none that satisfies it   *)
(* is dropped, on the borrowed and on the owned path, cache filled or not.  *)
C1_PatternConsistency ==
  Narrowed => CandSet(Vec) = {c \in CandSet(BeforeVec) : Produces(c, LastEntry)}

\* an owned (retain in place) call that dropped some candidates and kept
\* others, after an earlier call filled cells of the cache
C1_Witness ==
  /\ Narrowed
  /\ called.val.remaining.owned
  /\ 0 < Len(Vec)
  /\ Len(Vec) < Len(BeforeVec)

(* C2 as stated: whenever every call so far came with a longer history than *)
(* the one before, remaining after a call that got through its filtering    *)
(* is the set of dictionary words consistent with the full history.         *)
C2_Original ==
  (growing /\ called.some /\ (result.kind = "word" \/ result = Panic("best")))
    => WordSet(Vec) = {w \in DictWords : Consistent(w, CalledHistory)}

(* C2, amended: when the first call on the Guesser has at most one entry    *)
(* and every later call has exactly one entry more than the call before,    *)
(* remaining after a call that got through its filtering is the set of      *)
(* dictionary words consistent with the full history of that call.          *)
C2_FullHistoryStepwise ==
  (stepwise /\ called.some /\ (result.kind = "word" \/ result = Panic("best")))
    => WordSet(Vec) = {w \in DictWords : Consistent(w, CalledHistory)}

\* a third call of a stepwise game, with a two-entry history, that narrowed
C2_Witness ==
  /\ stepwise
  /\ called.some
  /\ Len(CalledHistory) = 2
  /\ result.kind = "word"
  /\ Len(Vec) < Len(BeforeVec)

(* C3: monotonic narrowing.  After any call remaining is a subset of the    *)
(* remaining before it and no longer; and after a call with a non-empty     *)
(* history that reached its filtering step the two have equal length only   *)
(* if every candidate before the call produces the observed pattern.        *)
C3_MonotonicNarrowing ==
  called.some =>
    /\ CandSet(Vec) \subseteq CandSet(BeforeVec)
    /\ Len(Vec) <= Len(BeforeVec)
    /\ (Narrowed /\ Len(Vec) = Len(BeforeVec))
         => \A c \in CandSet(BeforeVec) : Produces(c, LastEntry)

\* a filtering call that dropped nothing from a non-empty remaining
C3_Witness ==
  /\ Narrowed
  /\ Len(Vec) = Len(BeforeVec)
  /\ Len(Vec) > 0
  /\ called.val.remaining.owned

(* C4: cache idempotence.  The cache starts empty; a step that fills a cell  *)
(* cache[g][a] writes pack(compute(answer = word a, guess = word g)) into   *)
(* it, and a query for (g, a) on the filled cell returns that value; and no *)
(* step changes a filled cell.  So in every reachable state every filled    *)
(* cell holds the packed pattern of its pair, and every query for the pair, *)
(* by filter or scoring, returns the value of the first.                    *)
CacheEmpty ==
  \A g \in Indices : \A a \in Indices : COMPUTES.val[g + 1][a + 1] = NoneCell

FillsCorrectly ==
  \A g \in Indices : \A a \in Indices :
    (COMPUTES.val[g + 1][a + 1] = NoneCell /\ COMPUTES'.val[g + 1][a + 1] # NoneCell)
      => /\ COMPUTES'.val[g + 1][a + 1] - 1 = PackedOf(g, a)
         /\ get_correctness_packed(COMPUTES'.val[g + 1], WordAt(g), WordAt(a), a).val
              = PackedOf(g, a)

NeverOverwritten ==
  \A g \in Indices : \A a \in Indices :
    COMPUTES.val[g + 1][a + 1] # NoneCell
      => COMPUTES'.val[g + 1][a + 1] = COMPUTES.val[g + 1][a + 1]

C4_CacheIdempotence ==
  CacheEmpty /\ [][FillsCorrectly /\ NeverOverwritten]_vars

\* a second filtering call on a Guesser, made over cells the first one filled
C4_Witness ==
  /\ Narrowed
  /\ Len(entropy) >= 2
  /\ \E g \in Indices : \E a \in Indices : COMPUTES.val[g + 1][a + 1] # NoneCell

(* C5: a guess call with an empty history returns the opening word "tares"  *)
(* and scores nothing: remaining, the entropy trace and every cache cell    *)
(* are as before the call.                                                  *)
C5_FixedOpening ==
  [][(history = <<>> /\ Guess)
       => /\ result' = Returned(Tares)
          /\ evaluated' = <<>>
          /\ UNCHANGED <<remaining, entropy, COMPUTES, INITIAL>>]_vars

\* an opening call made on a thread whose cache an earlier game filled
C5_Witness ==
  /\ called.some
  /\ CalledHistory = <<>>
  /\ result = Returned(Tares)
  /\ games > 0
  /\ \E g \in Indices : \E a \in Indices : COMPUTES.val[g + 1][a + 1] # NoneCell

\* what a newly constructed Guesser with an empty cache does with hist
FreshOutcome(hist) ==
  LET n == Cached_new(None, None, DICTIONARY)
  IN guess(n.self, n.INITIAL.val, n.COMPUTES, hist).result

(* C6 as stated: the word a call returns is fixed by the dictionary and the *)
(* history alone, whatever calls the Guesser served before: a call that     *)
(* returns a word returns the word a new Guesser returns for that history.  *)
C6_Original ==
  (called.some /\ result.kind = "word") => result = FreshOutcome(CalledHistory)

\* what the call does from the same remaining vector with an empty cache
CanonicalOutcome ==
  guess([remaining |-> Owned(BeforeVec), entropy |-> <<>>], INITIAL.val,
        Some(Cache_default(NUM_WORDS)), CalledHistory).result

RECURSIVE Replay(_, _, _, _)
\* the outcome of the last of the calls guess(hist[1..k]), ..., guess(hist),
\* made in turn on the Guesser slf
Replay(slf, computes, hist, k) ==
  LET g == guess(slf, InitialWords(DICTIONARY), computes, SubSeq(hist, 1, k))
  IN IF k >= Len(hist) THEN g.result
     ELSE Replay(g.self, g.computes, hist, k + 1)

\* what a new Guesser with an empty cache answers after one call per turn
TurnwiseOutcome(hist) ==
  LET n == Cached_new(None, None, DICTIONARY)
  IN Replay(n.self, n.COMPUTES, hist, 0)

(* C6, amended: the outcome of a call is fixed by the dictionary, the       *)
(* remaining vector the call starts from and the history, whatever cells    *)
(* the cache holds and whether remaining is borrowed or owned; and on a     *)
(* Guesser that has served one call per turn (the first with at most one    *)
(* entry, each later one with one entry more) it is fixed by the dictionary *)
(* and the history alone.  Stated on the state the call leaves (the        *)
(* harness has not extended the history yet): what the harness records      *)
(* afterwards changes none of the values compared.                          *)
C6_Determinism ==
  (called.some /\ history = CalledHistory) =>
    /\ result = CanonicalOutcome
    /\ stepwise => result = TurnwiseOutcome(CalledHistory)

\* a call with a non-empty history in a later game, over a cache the
\* earlier game filled, that returned a word
C6_Witness ==
  /\ Narrowed
  /\ history = CalledHistory
  /\ stepwise
  /\ result.kind = "word"
  /\ games > 0
  /\ called.val.remaining.owned

(* C7: a call with a non-empty history that returns a word returns a member *)
(* of remaining as that call narrowed it; and when the last pattern is not  *)
(* all-correct the returned word is not the last guessed word.              *)
C7_ReturnedFromNarrowed ==
  (CalledLast /\ result.kind = "word") =>
    /\ result.word \in WordSet(Vec)
    /\ (Pack(LastEntry.mask) # Pack(AllCorrect) => result.word # LastEntry.word)

\* an owned call whose last pattern was not all-correct and that returned a word
C7_Witness ==
  /\ CalledLast
  /\ result.kind = "word"
  /\ LastEntry.mask # AllCorrect
  /\ called.val.remaining.owned

(* C8: budget boundary.  In a call with a non-empty history that leaves n   *)
(* candidates after filtering, the scoring loop evaluates exactly the first *)
(* min(n, max(20, n / 3)) candidates of remaining, in order, and no others: *)
(* 20 for n = 60, 33 for n = 100, and all n when n <= 20.                   *)
C8_BudgetBoundary ==
  Narrowed =>
    LET n == Len(Vec)
        k == IF n <= 20 THEN n ELSE IF n \div 3 > 20 THEN n \div 3 ELSE 20
    IN /\ evaluated = [i \in 1..k |-> Vec[i].word]
       /\ (n = 60 => Len(evaluated) = 20)
       /\ (n = 100 => Len(evaluated) = 33)
       /\ (n <= 20 => Len(evaluated) = n)

\* a call that left 100 candidates and evaluated 33 of them
C8_Witness ==
  /\ Narrowed
  /\ Len(Vec) = 100
  /\ Len(evaluated) = 33

(* C9: when remaining is empty after the filtering of a call with a         *)
(* non-empty history, the call panics and returns no word.                  *)
C9_EmptyRemainingIsFatal ==
  (CalledLast /\ Len(Vec) = 0) => result.kind = "panic"

\* a call whose filtering emptied remaining and that panicked at best.unwrap()
C9_Witness ==
  /\ Narrowed
  /\ Len(Vec) = 0
  /\ Len(BeforeVec) > 0
  /\ result = Panic("best")

(* C10: when the last word of a non-empty history is not in remaining as it *)
(* stands before the filtering, the call panics and returns no word.        *)
C10_LastWordNotFoundIsFatal ==
  (CalledLast /\ LastEntry.word \notin WordSet(BeforeVec)) => result.kind = "panic"

\* a call whose last word is a dictionary word that an earlier call filtered out
C10_Witness ==
  /\ CalledLast
  /\ LastEntry.word \notin WordSet(BeforeVec)
  /\ LastEntry.word \in DictWords
  /\ result = Panic("find")

----------------------------------------------------------------------------
(* C11: the cache is per thread and each thread builds its own table on     *)
(* first use: whenever a guess call with a non-empty history runs on a      *)
(* thread, that thread's table is available to it, also when the Guesser    *)
(* was constructed on another thread.  The code builds the table in         *)
(* Cached::new only and guess unwraps the cell: on a thread that never      *)
(* constructed a Guesser the call panics.                                   *)

\* the claim as stated: no call with a non-empty history finds the table of
\* its thread missing
C11_TableAvailable ==
  CalledLast => result # Panic("computes")

\* a call leaves the table of the other thread as it was
C11_OtherTableUntouched ==
  [][called' # called => elsewhere' = elsewhere]_vars

----------------------------------------------------------------------------
(* C12: the word a call returns is the candidate with the least e_score     *)
(* among the candidates its scoring loop evaluated; among candidates that   *)
(* tie on the least e_score it is the one evaluated first, i.e. the         *)
(* earliest in remaining's order.                                           *)

\* the least e_score among the evaluated candidates
LeastScore ==
  CHOOSE e \in {scored[i].e_score : i \in 1..Len(scored)} :
    \A i \in 1..Len(scored) : e <= scored[i].e_score

\* the positions in the evaluation order that reach the least e_score
LeastAt == {i \in 1..Len(scored) : scored[i].e_score = LeastScore}

C12_LeastScoreEarliestWins ==
  (result.kind = "word" /\ scored # <<>>) =>
     /\ \A i \in 1..Len(scored) : scored[i].word = Vec[i].word
     /\ \E i \in LeastAt :
          /\ result.word = scored[i].word
          /\ \A j \in LeastAt : i <= j

\* a call whose least e_score is reached by two candidates or more, after
\* a first candidate of greater e_score
C12_Witness ==
  /\ result.kind = "word"
  /\ Len(scored) >= 3
  /\ Cardinality(LeastAt) >= 2
  /\ 1 \notin LeastAt
  /\ \E i \in LeastAt : result.word = scored[i].word /\ \A j \in LeastAt : i <= j

----------------------------------------------------------------------------
(* C13: for each evaluated candidate word, the bucket totals hold, per      *)
(* pattern, the weights of the candidates c of the full remaining set whose *)
(* get_correctness_packed(row of word, word, c.word, c.index) is that       *)
(* pattern.  As stated the claim leaves the evaluated word itself out; the  *)
(* inner loop runs over all of remaining, the word itself included, so its  *)
(* own weight goes into the bucket of the all-correct pattern.              *)

\* the pattern the cache holds for guess Vec[i].word and answer Vec[j].word
CachedPattern(i, j) ==
  CacheValue_get(COMPUTES.val[Vec[i].index + 1][Vec[j].index + 1])

\* the patterns the candidates of remaining give against Vec[i].word
PatternsOf(i) == {CachedPattern(i, j) : j \in 1..Len(Vec)}

\* the weight of the candidates in from that give pattern m against Vec[i].word
WeightIn(i, m, from) ==
  SumSeq([j \in 1..Len(Vec) |->
            IF j \in from /\ CachedPattern(i, j) = m THEN Vec[j].weight ELSE 0],
         1, Len(Vec))

\* the claim as stated: the totals of every evaluated candidate leave the
\* candidate itself out
C13_Original ==
  result.kind = "word" =>
    \A i \in 1..Len(scored) :
      \A m \in PatternsOf(i) \cup DOMAIN scored[i].totals :
        Bucket(scored[i].totals, m) = WeightIn(i, m, (1..Len(Vec)) \ {i})

\* the totals of every evaluated candidate run over all of remaining
C13_TotalsOverAllCandidates ==
  result.kind = "word" =>
    \A i \in 1..Len(scored) :
      \A m \in PatternsOf(i) \cup DOMAIN scored[i].totals :
        Bucket(scored[i].totals, m) = WeightIn(i, m, 1..Len(Vec))

\* a call that evaluated two candidates or more, one of them alone in the
\* all-correct bucket, which holds that candidate's own weight
C13_Witness ==
  /\ result.kind = "word"
  /\ Len(scored) >= 2
  /\ \E i \in 1..Len(scored) :
       /\ Bucket(scored[i].totals, Pack(AllCorrect)) = Vec[i].weight
       /\ Vec[i].weight > 0
       /\ \E m \in DOMAIN scored[i].totals : m # Pack(AllCorrect)

----------------------------------------------------------------------------
(* C14: in every state remaining is a subsequence of the initial list in    *)
(* dictionary order: each candidate's index lies in [0, N) and is the       *)
(* dictionary position of its word, no index occurs twice, and the          *)
(* survivors of a filter (clone-and-filter or retain in place) keep their   *)
(* relative dictionary order.                                               *)

C14_RemainingIsOrderedSubsequence ==
  /\ \A i \in 1..Len(Vec) :
       /\ Vec[i].index \in 0..(NUM_WORDS - 1)
       /\ Vec[i].word = DICTIONARY[Vec[i].index + 1].word
       /\ Vec[i] = INITIAL.val[Vec[i].index + 1]
  /\ \A i, j \in 1..Len(Vec) : i < j => Vec[i].index < Vec[j].index

\* a retain in place: the call started from the owned vector an earlier
\* clone-and-filter left, of two candidates or more, and dropped one; a
\* survivor is not at its dictionary position any more
C14_Witness ==
  /\ Narrowed
  /\ called.val.remaining.owned
  /\ Len(BeforeVec) >= 2
  /\ Len(Vec) < Len(BeforeVec)
  /\ \E i \in 1..Len(Vec) : Vec[i].index # i - 1

----------------------------------------------------------------------------
(* C15: copy-on-write.  No step changes the shared snapshot INITIAL; a      *)
(* Guesser that has not filtered yet borrows it and so holds the entire     *)
(* dictionary, in particular every newly constructed one, whatever earlier  *)
(* Guessers did; a filtering call leaves the list owned, the first by a     *)
(* filtered copy and the later ones by filtering the owned list in place.   *)

\* the borrowed list is the entire dictionary, in order
WholeDictionary ==
  /\ Len(Vec) = NUM_WORDS
  /\ \A i \in 1..NUM_WORDS : Vec[i].word = DICTIONARY[i].word /\ Vec[i].index = i - 1

\* a call on an owned list keeps owned candidates only
FilteredInPlace ==
  (Narrowed /\ called.val.remaining.owned) =>
     CandSet(Vec) \subseteq CandSet(called.val.remaining.vec)

C15_CopyOnWrite ==
  /\ [][INITIAL' = INITIAL]_vars
  /\ [](~remaining.owned => WholeDictionary)
  /\ [](Narrowed => remaining.owned)
  /\ []FilteredInPlace
  /\ [][games' # games => (~remaining'.owned /\ entropy' = <<>>)]_vars

\* the Guesser of a second game has filtered its list down, the snapshot
\* still whole
C15_Witness ==
  /\ games >= 1
  /\ Narrowed
  /\ remaining.owned
  /\ Len(Vec) < NUM_WORDS
  /\ Len(INITIAL.val) = NUM_WORDS

----------------------------------------------------------------------------
(* C16: a lookup that misses writes exactly the cell cache[g][a], with the  *)
(* pattern of (guess g, answer a), and leaves every other cell as it was,   *)
(* the transposed cell cache[a][g] in particular; a lookup that hits        *)
(* returns what the cell holds and writes no cell.                          *)

\* the cell the last lookup asked for, as it was before the lookup
ProbedCell == probe.before[probe.g + 1][probe.a + 1]

C16_MissWritesOneCell ==
  probe.kind = "lookup" =>
    /\ COMPUTES.val[probe.a + 1][probe.g + 1] = probe.before[probe.a + 1][probe.g + 1]
         \/ probe.a = probe.g
    /\ IF ProbedCell = NoneCell
       THEN /\ probe.val = PackedOf(probe.g, probe.a)
            /\ COMPUTES.val =
                 [probe.before EXCEPT ![probe.g + 1][probe.a + 1] = CacheValue_new(probe.val)]
       ELSE /\ probe.val = CacheValue_get(ProbedCell)
            /\ COMPUTES.val = probe.before

\* a miss on (g, a), g # a, after the transposed cell (a, g) was filled with
\* a different pattern
C16_Witness ==
  /\ probe.kind = "lookup"
  /\ probe.g # probe.a
  /\ ProbedCell = NoneCell
  /\ probe.before[probe.a + 1][probe.g + 1] # NoneCell
  /\ COMPUTES.val[probe.a + 1][probe.g + 1] # COMPUTES.val[probe.g + 1][probe.a + 1]

----------------------------------------------------------------------------
(* C20: for every byte v below 255, hence for every packed pattern,         *)
(* CacheValue::new(v) is built without failure and get() gives v back; a    *)
(* cell that stores pattern 0 is not the empty cell: a lookup finds it, as  *)
(* a hit, and reads 0.                                                      *)

C20_CacheValueRoundTrip ==
  /\ MAX_MASK_ENUM <= 255
  /\ (probe.kind = "value" /\ probe.val < 255) =>
        /\ probe.cell \in 1..255
        /\ probe.cell # NoneCell
        /\ probe.back = probe.val
  /\ (probe.kind = "lookup" /\ probe.val = 0) =>
        /\ COMPUTES.val[probe.g + 1][probe.a + 1] # NoneCell
        /\ CacheValue_get(COMPUTES.val[probe.g + 1][probe.a + 1]) = 0
        /\ ProbedCell # NoneCell => COMPUTES.val = probe.before

\* a lookup that hits a cell storing pattern 0
C20_Witness ==
  /\ probe.kind = "lookup"
  /\ ProbedCell # NoneCell
  /\ CacheValue_get(ProbedCell) = 0
  /\ probe.val = 0
  /\ COMPUTES.val = probe.before

----------------------------------------------------------------------------
(* The well-formed protocol of C17 and C18: the answer is a dictionary      *)
(* word, the opening word is in the dictionary, the feedback is truthful    *)
(* (Observe), there is one call per turn and each entry's word is the word  *)
(* the call before it returned (protocol)                                   *)

\* the words of the dictionary the Guesser was built from
Dictionary == WordSet(INITIAL.val)

\* N
DictionarySize == Len(INITIAL.val)

WellFormed ==
  /\ protocol
  /\ answer \in Dictionary
  /\ Tares \in Dictionary

\* the entries of the last call's history whose feedback is not all-correct
Missed == {k \in 1..Len(CalledHistory) : CalledHistory[k].mask # AllCorrect}

----------------------------------------------------------------------------
(* C17: under the well-formed protocol, after every guess call the answer   *)
(* is still in remaining, so remaining is not empty, the last word was      *)
(* found in the remaining of before the filter, and the call did not end    *)
(* in a fatal failure.                                                      *)

C17_AnswerRetained ==
  (WellFormed /\ called.some) =>
     /\ result.kind = "word"
     /\ answer \in WordSet(Vec)
     /\ Vec # <<>>
     /\ CalledLast => LastEntry.word \in WordSet(BeforeVec)

\* the third call of a well-formed game in which neither of the two words
\* returned so far was the answer
C17_Witness ==
  /\ WellFormed
  /\ called.some
  /\ Len(CalledHistory) = 2
  /\ Missed = {1, 2}
  /\ answer \in WordSet(Vec)
  /\ result.kind = "word"

----------------------------------------------------------------------------
(* C18: under the well-formed protocol the Guesser never returns a word     *)
(* whose earlier feedback was not all-correct, remaining is strictly        *)
(* shorter after every call whose last feedback is not all-correct, and     *)
(* the answer is returned within N turns (turn k is the call with a         *)
(* history of k - 1 entries).                                               *)

\* the answer is the word of this call or of an earlier turn
AnswerReturned ==
  \/ result = Returned(answer)
  \/ \E k \in 1..Len(CalledHistory) : CalledHistory[k].word = answer

C18_GameTerminates ==
  (WellFormed /\ called.some) =>
     /\ result.kind = "word"
     /\ \A k \in Missed : result.word # CalledHistory[k].word
     /\ (CalledLast /\ LastEntry.mask # AllCorrect) => Len(Vec) < Len(BeforeVec)
     /\ Len(Vec) + Cardinality(Missed) <= DictionarySize
     /\ Len(CalledHistory) + 1 >= DictionarySize => AnswerReturned

\* a well-formed game on a dictionary of three words or more that takes
\* all its N turns: the answer comes at turn N, not before
C18_Witness ==
  /\ WellFormed
  /\ called.some
  /\ DictionarySize >= 3
  /\ Len(CalledHistory) + 1 = DictionarySize
  /\ Cardinality(Missed) = Len(CalledHistory)
  /\ result = Returned(answer)
  /\ Len(Vec) = 1

----------------------------------------------------------------------------
(* C19: a guess call that fails because the last word of the history is     *)
(* not in remaining fails before it changes anything: remaining and its     *)
(* borrowed or owned status, the entropy trace, every cell of the cache     *)
(* and the shared snapshot are as they were before the call.                *)

C19_NotFoundChangesNothing ==
  [][result' = Panic("find") =>
       UNCHANGED <<remaining, entropy, COMPUTES, INITIAL>>]_vars

\* the call failed on a Guesser that an earlier call had narrowed: an owned
\* list, an entropy trace and filled cache cells were there to change
C19_Witness ==
  /\ result = Panic("find")
  /\ remaining.owned
  /\ Len(entropy) >= 1
  /\ \E g, a \in 1..DictionarySize : COMPUTES.val[g][a] # NoneCell

====
